---- MODULE Spec2Model ----
(***************************************************************************)
(* Model of src/main.rs: a directory-watching command runner.              *)
(*                                                                         *)
(*   main        : Config::new, mode resolution, Runner::new, Runner::run  *)
(*   Runner::new : opens the inotify instance, resolves command and        *)
(*                 directories per mode, registers one watch per directory *)
(*   Runner::run : prints the command, runs it once, then loops forever:   *)
(*                 blocking read, one run_command per event read, a second *)
(*                 blocking read whose result is ignored                   *)
(*                                                                         *)
(* Strings that are parsed (the directories setting) are sequences of      *)
(* one-character strings; strings that are only compared or printed are    *)
(* TLA+ strings.  Option<T> is a sequence of length 0 (None) or 1 (Some).  *)
(***************************************************************************)
EXTENDS Integers, Sequences, FiniteSets, TLC

\* ---------------------------------------------------------------- bounds
\* Longest value of the "directories" setting that is enumerated.
MaxLen == 2
\* Number of modification events the kernel delivers in one behaviour.
MaxEvents == 2

\* ------------------------------------------------------------- constants
CLEAR == "ESC[2J ESC[1;1H"

None == <<>>
Some(v) == <<v>>
IsNone(o) == o = <<>>
IsSome(o) == o # <<>>
Unwrap(o) == o[1]
UnwrapOr(o, d) == IF o = <<>> THEN d ELSE o[1]

\* Characters of the directories setting: whitespace and one path character
\* (the paths "." and ".." exist in every directory).
Chars == {" ", "."}
Strings == UNION {[1..k -> Chars] : k \in 0..MaxLen}

\* Values of the command setting.
Commands == {"", " ", "echo hi"}

Src == <<"s", "r", "c">>
Dot == <<".">>

RustCommand == "cargo fmt; clear; cargo clippy --color always -q"
MakeCommand == "make -s"

\* What a finished command can have written, <<stdout, stderr>>: something on
\* each stream, so that the order of the two writes shows.
Captures == {<<"hi", "warning">>}

\* ------------------------------------------------------- pure functions
\* str::split_whitespace: the maximal runs of non-whitespace characters.
RECURSIVE Split(_, _, _)
Split(s, cur, acc) ==
    IF s = <<>>
    THEN IF cur = <<>> THEN acc ELSE Append(acc, cur)
    ELSE IF Head(s) = " "
         THEN Split(Tail(s), <<>>, IF cur = <<>> THEN acc ELSE Append(acc, cur))
         ELSE Split(Tail(s), Append(cur, Head(s)), acc)

split_whitespace(s) == Split(s, <<>>, <<>>)

\* confargenv::fusion for one key: the supplied value, or else the default.
fusion(default, supplied) == UnwrapOr(supplied, default)

\* Mutant: Config::new without the is_empty test on the command.
ConfigCommand_KeepEmpty(args) == Some(fusion("", args.command))

\* Config::new, the command field.
ConfigCommand(args) ==
    LET command == fusion("", args.command)
    IN  IF command = "" THEN None ELSE Some(command)

\* Config::new, the directories field.
ConfigDirectories(args) ==
    LET directories == fusion(<<>>, args.directories)
    IN  IF directories = <<>> THEN None ELSE Some(split_whitespace(directories))

ConfigNew(args) ==
    [command |-> ConfigCommand(args), directories |-> ConfigDirectories(args)]

\* Mutant: the Makefile is tested before Cargo.toml.
guess_mode_MakeFirst(entries) ==
    LET cargo_toml_found == "Cargo.toml" \in entries
        makefile_found == "Makefile" \in entries
    IN  IF makefile_found THEN "Make"
        ELSE IF cargo_toml_found THEN "Rust"
        ELSE "Custom"

guess_mode_by_current_directory(entries) ==
    LET cargo_toml_found == "Cargo.toml" \in entries
        makefile_found == "Makefile" \in entries
    IN  IF cargo_toml_found THEN "Rust"
        ELSE IF makefile_found THEN "Make"
        ELSE "Custom"

\* Mutant: main guesses the mode whether or not a command is configured.
ResolveMode_AlwaysGuess(c, entries) == guess_mode_by_current_directory(entries)

\* main, lines 84-87.
ResolveMode(c, entries) ==
    IF IsNone(c.command) THEN guess_mode_by_current_directory(entries)
    ELSE "Custom"

\* Mutant: Custom mode falls back to an empty command (unwrap_or_default in
\* place of expect).
DefaultCommand_CustomEmpty(m) ==
    IF m = "Rust" THEN Some(RustCommand)
    ELSE IF m = "Make" THEN Some(MakeCommand)
    ELSE Some("")

\* Runner::new, the match on mode: the default command of a mode.
DefaultCommand(m) ==
    IF m = "Rust" THEN Some(RustCommand)
    ELSE IF m = "Make" THEN Some(MakeCommand)
    ELSE None

\* Runner::new, the match on mode: the default directories of a mode.
DefaultDirectories(m) ==
    IF m = "Rust" THEN <<Src>> ELSE <<Src, Dot>>

\* Runner::new, the match on mode: Custom without a command panics.
CommandPresent(m, c) == IsSome(c) \/ IsSome(DefaultCommand(m))
ResolveCommand(m, c) == IF IsSome(c) THEN Unwrap(c) ELSE Unwrap(DefaultCommand(m))
ResolveDirectories(m, d) == UnwrapOr(d, DefaultDirectories(m))

\* ---------------------------------------------------------------- state
VARIABLES
    args,        \* what the user supplied: [command, directories], each an Option
    cwd,         \* names of the entries of the current directory
    pc,          \* position of the single thread
    conf,        \* Config built by Config::new
    mode,        \* Mode chosen in main
    handles,     \* number of Inotify instances created so far
    watches,     \* paths registered with the inotify instance
    watchList,   \* history: the directories Runner::new iterated over
    command,     \* Runner.command
    queue,       \* events queued in the kernel for the inotify instance
    events,      \* the batch the for loop is iterating over (rest of it)
    site,        \* call site of the current run_command: "init" or "for"
    child,       \* number of sh processes spawned and not yet terminated
    output,      \* run_command's local `output`: None until output() returns
    out,         \* everything written to stdout and stderr, in order
    panic,       \* message of the panic that ended the process, "" if none
    delivered,   \* history: number of events delivered by the kernel
    fresh,       \* history: events delivered while the thread was blocked in
                 \*          the triggering read with nothing queued
    drained,     \* history: events returned by the second read and dropped
    nbatch,      \* history: number of returns of the triggering read
    execs        \* history: one record per invocation of run_command

vars == <<args, cwd, pc, conf, mode, handles, watches, watchList, command,
          queue, events, site, child, output, out, panic, delivered, fresh,
          drained, nbatch, execs>>

input == <<args, cwd>>
runner == <<handles, watches, watchList, command>>
history == <<delivered, fresh, drained, nbatch, execs>>

Stdout(kind, text) == [fd |-> "stdout", kind |-> kind, text |-> text]
Stderr(kind, text) == [fd |-> "stderr", kind |-> kind, text |-> text]

Init ==
    /\ args \in [command : {None} \cup {Some(c) : c \in Commands},
                 directories : {None} \cup {Some(s) : s \in Strings}]
    /\ cwd \in SUBSET {"Cargo.toml", "Makefile"}
    /\ pc = "main"
    /\ conf = [command |-> None, directories |-> None]
    /\ mode = "Custom"
    /\ handles = 0
    /\ watches = {}
    /\ watchList = <<>>
    /\ command = ""
    /\ queue = <<>>
    /\ events = <<>>
    /\ site = "init"
    /\ child = 0
    /\ output = None
    /\ out = <<>>
    /\ panic = ""
    /\ delivered = 0
    /\ fresh = {}
    /\ drained = {}
    /\ nbatch = 0
    /\ execs = <<>>

\* -------------------------------------------------------------- actions
\* main, lines 82-87: Config::new and the choice of the mode.
Main ==
    /\ pc = "main"
    /\ conf' = ConfigNew(args)
    /\ mode' = ResolveMode(ConfigNew(args), cwd)
    /\ pc' = "new"
    /\ UNCHANGED <<input, output, runner, queue, events, site, child, out, panic, history>>

\* Line 44: eprintln!("Failed to watch {directory}").
Warning(directory) == [fd |-> "stderr", kind |-> "Failed to watch", text |-> directory]

\* The warnings of the registration loop, in the order of the list.
RECURSIVE Warnings(_, _, _)
Warnings(dirs, failed, i) ==
    IF i > Len(dirs) THEN <<>>
    ELSE (IF i \in failed THEN <<Warning(dirs[i])>> ELSE <<>>)
         \o Warnings(dirs, failed, i + 1)

\* Mutant: the registration loop stops at the first failure.
Registered_StopAtFailure(dirs, failed) ==
    {dirs[i] : i \in {j \in 1..Len(dirs) : \A k \in failed : j < k}}

\* The watches left by the registration loop.
Registered(dirs, failed) == {dirs[i] : i \in (1..Len(dirs)) \ failed}

\* Runner::new, line 21: Inotify::init fails and expect panics.
RunnerNewInitFails ==
    /\ pc = "new"
    /\ pc' = "panicked"
    /\ panic' = "Error initializing inotify"
    /\ UNCHANGED <<input, output, conf, mode, runner, queue, events, site, child, out, history>>

\* Runner::new, line 36: Custom mode without a command, expect panics.
RunnerNewNoCommand ==
    /\ pc = "new"
    /\ ~CommandPresent(mode, conf.command)
    /\ handles' = handles + 1
    /\ pc' = "panicked"
    /\ panic' = "Command needs to be present for custom mode"
    /\ UNCHANGED <<input, output, conf, mode, watches, watchList, command, queue, events,
                   site, child, out, history>>

\* Runner::new, lines 21-48, the path that returns a Runner.
RunnerNew ==
    /\ pc = "new"
    /\ CommandPresent(mode, conf.command)
    /\ LET directories == ResolveDirectories(mode, conf.directories)
       IN  \E failed \in SUBSET (1..Len(directories)) :
              /\ watches' = Registered(directories, failed)
              /\ watchList' = directories
              /\ out' = out \o Warnings(directories, failed, 1)
    /\ handles' = handles + 1
    /\ command' = ResolveCommand(mode, conf.command)
    /\ pc' = "run"
    /\ UNCHANGED <<input, output, conf, mode, queue, events, site, child, panic, history>>

\* Mutant: Runner::run without the call of line 53.
RunStart_NoInitialRun ==
    /\ pc = "run"
    /\ out' = Append(out, Stdout("command", command))
    /\ site' = "init"
    /\ pc' = "read"
    /\ UNCHANGED <<input, output, conf, mode, runner, queue, events, child, panic, history>>

\* Runner::run, lines 52-53: print the command, then call run_command.
RunStart ==
    /\ pc = "run"
    /\ out' = Append(out, Stdout("command", command))
    /\ site' = "init"
    /\ pc' = "run_command"
    /\ UNCHANGED <<input, output, conf, mode, runner, queue, events, child, panic, history>>

\* Where control goes when run_command returns to its caller.
AfterCommand(s, evs) ==
    IF s = "init" THEN "read"
    ELSE IF Len(evs) > 1 THEN "run_command"
    ELSE "drain"

\* The for loop's remaining events when run_command returns to its caller.
RestOfBatch(s, evs) == IF s = "init" THEN evs ELSE Tail(evs)

\* History record of one invocation of run_command: its call site, the event
\* of the for loop it runs for (0 for the initial run), the number of the
\* wake-up that returned that event, how many events had been read from the
\* inotify instance when it started, whether sh was spawned and, once the
\* child has terminated, what it had written: Some(<<stdout, stderr>>).
Exec(spawned) ==
    [site |-> site,
     event |-> IF site = "init" THEN 0 ELSE Head(events),
     batch |-> nbatch,
     read |-> delivered - Len(queue),
     spawned |-> spawned,
     captured |-> None]

\* run_command, lines 69-73, when sh cannot be spawned: output() is Err and
\* the if-let does nothing.
RunCommandSpawnFails ==
    /\ pc = "run_command"
    /\ out' = Append(out, Stdout("clear", CLEAR))
    /\ execs' = Append(execs, Exec(FALSE))
    /\ pc' = AfterCommand(site, events)
    /\ events' = RestOfBatch(site, events)
    /\ UNCHANGED <<input, output, conf, mode, runner, queue, site, child, panic,
                   delivered, fresh, drained, nbatch>>

\* Mutant: run_command with Command::spawn in place of Command::output, so
\* that it returns while the child is still running.
RunCommandSpawn_NoWait ==
    /\ pc = "run_command"
    /\ out' = Append(out, Stdout("clear", CLEAR))
    /\ execs' = Append(execs, Exec(TRUE))
    /\ child' = child + 1
    /\ pc' = AfterCommand(site, events)
    /\ events' = RestOfBatch(site, events)
    /\ UNCHANGED <<input, output, conf, mode, runner, queue, site, panic,
                   delivered, fresh, drained, nbatch>>

\* run_command, lines 69-73: clear the screen, spawn sh -c command; output()
\* then blocks until the child has terminated.
RunCommandSpawn ==
    /\ pc = "run_command"
    /\ out' = Append(out, Stdout("clear", CLEAR))
    /\ execs' = Append(execs, Exec(TRUE))
    /\ child' = child + 1
    /\ pc' = "output"
    /\ UNCHANGED <<input, output, conf, mode, runner, queue, events, site, panic,
                   delivered, fresh, drained, nbatch>>

\* run_command, line 73: the child terminates with some exit status and some
\* captured output, and output() returns Ok.
RunCommandWait ==
    /\ pc = "output"
    /\ child' = child - 1
    /\ \E cap \in Captures, status \in {0, 1} :
          /\ output' = Some([status |-> status, stdout |-> cap[1], stderr |-> cap[2]])
          /\ execs' = [execs EXCEPT ![Len(execs)].captured = Some(cap)]
    /\ pc' = "write"
    /\ UNCHANGED <<input, conf, mode, runner, queue, events, site, out, panic,
                   delivered, fresh, drained, nbatch>>

\* Mutant: run_command forwards the captures only if output.status.success().
RunCommandOutput_OnlyOnSuccess ==
    /\ pc = "write"
    /\ out' = IF Unwrap(output).status = 0
              THEN out \o <<Stdout("captured", Unwrap(output).stdout),
                            Stderr("captured", Unwrap(output).stderr)>>
              ELSE out
    /\ output' = None
    /\ pc' = AfterCommand(site, events)
    /\ events' = RestOfBatch(site, events)
    /\ UNCHANGED <<input, conf, mode, runner, queue, site, child, panic, history>>

\* Mutant: run_command writes the captured stderr before the captured stdout.
RunCommandOutput_StderrFirst ==
    /\ pc = "write"
    /\ out' = out \o <<Stderr("captured", Unwrap(output).stderr),
                       Stdout("captured", Unwrap(output).stdout)>>
    /\ output' = None
    /\ pc' = AfterCommand(site, events)
    /\ events' = RestOfBatch(site, events)
    /\ UNCHANGED <<input, conf, mode, runner, queue, site, child, panic, history>>

\* run_command, lines 74-77: both captures are written, stdout first, and
\* run_command returns to its caller.
RunCommandOutput ==
    /\ pc = "write"
    /\ out' = out \o <<Stdout("captured", Unwrap(output).stdout),
                       Stderr("captured", Unwrap(output).stderr)>>
    /\ output' = None
    /\ pc' = AfterCommand(site, events)
    /\ events' = RestOfBatch(site, events)
    /\ UNCHANGED <<input, conf, mode, runner, queue, site, child, panic, history>>

\* run_command, line 75: writing to stdout fails and unwrap panics.
RunCommandStdoutFails ==
    /\ pc = "write"
    /\ pc' = "panicked"
    /\ panic' = "unwrap on Err: stdout write_all"
    /\ UNCHANGED <<input, output, conf, mode, runner, queue, events, site, child, out,
                   history>>

\* run_command, line 76: writing to stderr fails and unwrap panics.
RunCommandStderrFails ==
    /\ pc = "write"
    /\ out' = Append(out, Stdout("captured", Unwrap(output).stdout))
    /\ pc' = "panicked"
    /\ panic' = "unwrap on Err: stderr write_all"
    /\ UNCHANGED <<input, output, conf, mode, runner, queue, events, site, child,
                   history>>

\* Mutant: the for loop of line 61 skips the first event of the batch.
ReadEvents_SkipFirst ==
    /\ pc = "read"
    /\ queue # <<>>
    /\ events' = Tail(queue)
    /\ queue' = <<>>
    /\ nbatch' = nbatch + 1
    /\ site' = "for"
    /\ pc' = IF Len(queue) > 1 THEN "run_command" ELSE "drain"
    /\ UNCHANGED <<input, output, conf, mode, runner, child, out, panic,
                   delivered, fresh, drained, execs>>

\* Runner::run, lines 57-61: the triggering read returns the queued events
\* and the for loop starts on them.
ReadEvents ==
    /\ pc = "read"
    /\ queue # <<>>
    /\ events' = queue
    /\ queue' = <<>>
    /\ nbatch' = nbatch + 1
    /\ site' = "for"
    /\ pc' = "run_command"
    /\ UNCHANGED <<input, output, conf, mode, runner, child, out, panic,
                   delivered, fresh, drained, execs>>

\* Runner::run, lines 57-60: the triggering read returns Err and expect panics.
ReadEventsFails ==
    /\ pc = "read"
    /\ pc' = "panicked"
    /\ panic' = "Error while reading events"
    /\ UNCHANGED <<input, output, conf, mode, runner, queue, events, site, child, out, history>>

\* Runner::run, line 64: the second read_events_blocking is called with
\* nothing queued, and the thread sleeps in it.
DrainBlocks ==
    /\ pc = "drain"
    /\ queue = <<>>
    /\ pc' = "drain_blocked"
    /\ UNCHANGED <<input, output, conf, mode, runner, queue, events, site, child, out,
                   panic, history>>

\* Runner::run, line 64: the second read_events_blocking returns the queued
\* events, at once or after having slept, and they are dropped.
Drain ==
    /\ pc \in {"drain", "drain_blocked"}
    /\ queue # <<>>
    /\ drained' = drained \cup {queue[i] : i \in 1..Len(queue)}
    /\ queue' = <<>>
    /\ pc' = "read"
    /\ UNCHANGED <<input, output, conf, mode, runner, events, site, child, out, panic,
                   delivered, fresh, nbatch, execs>>

\* Mutant: the second read is unwrapped with expect, like the first.
DrainFails_Panics ==
    /\ pc \in {"drain", "drain_blocked"}
    /\ pc' = "panicked"
    /\ panic' = "Error while reading events"
    /\ UNCHANGED <<input, output, conf, mode, runner, queue, events, site, child, out,
                   history>>

\* Runner::run, line 64: the second read returns Err, which `let _` ignores.
DrainFails ==
    /\ pc \in {"drain", "drain_blocked"}
    /\ pc' = "read"
    /\ UNCHANGED <<input, output, conf, mode, runner, queue, events, site, child, out,
                   panic, history>>

\* Mutant: the watches are one-shot (WatchMask::ONESHOT), so that the kernel
\* removes a watch with the first event it delivers for it.
Deliver_OneShot ==
    /\ pc \in {"run", "run_command", "output", "write", "read", "drain", "drain_blocked"}
    /\ watches # {}
    /\ delivered < MaxEvents
    /\ delivered' = delivered + 1
    /\ queue' = Append(queue, delivered + 1)
    /\ fresh' = IF pc = "read" /\ queue = <<>> THEN fresh \cup {delivered + 1} ELSE fresh
    /\ \E d \in watches : watches' = watches \ {d}
    /\ UNCHANGED <<input, output, conf, mode, handles, watchList, command, events, site,
                   child, out, panic, pc, drained, nbatch, execs>>

\* The kernel queues a modification event of a watched path.
Deliver ==
    /\ pc \in {"run", "run_command", "output", "write", "read", "drain", "drain_blocked"}
    /\ watches # {}
    /\ delivered < MaxEvents
    /\ delivered' = delivered + 1
    /\ queue' = Append(queue, delivered + 1)
    /\ fresh' = IF pc = "read" /\ queue = <<>> THEN fresh \cup {delivered + 1} ELSE fresh
    /\ UNCHANGED <<input, output, conf, mode, runner, events, site, child, out, panic, pc,
                   drained, nbatch, execs>>

Next ==
    \/ Main
    \/ RunnerNewInitFails
    \/ RunnerNewNoCommand
    \/ RunnerNew
    \/ RunStart
    \/ RunCommandSpawnFails
    \/ RunCommandSpawn
    \/ RunCommandWait
    \/ RunCommandOutput
    \/ RunCommandStdoutFails
    \/ RunCommandStderrFails
    \/ ReadEvents
    \/ ReadEventsFails
    \/ DrainBlocks
    \/ Drain
    \/ DrainFails
    \/ Deliver

Spec == Init /\ [][Next]_vars

\* ------------------------------------------------------- vocabulary
Range(s) == {s[i] : i \in DOMAIN s}

\* Panics of Runner::new, which end the process while it is Starting.
StartingPanics ==
    {"Error initializing inotify", "Command needs to be present for custom mode"}

Starting == pc \in {"main", "new"} \/ (pc = "panicked" /\ panic \in StartingPanics)

\* Runner::new has returned a Runner.
Constructed == ~Starting

\* The loop of Runner::run is alive.
Running ==
    pc \in {"run", "run_command", "output", "write", "read", "drain", "drain_blocked"}

\* The invocations of run_command made for event e, for wake-up b, and from
\* line 53.
ExecsOfEvent(e) == {i \in DOMAIN execs : execs[i].event = e}
ExecsOfBatch(b) == {i \in DOMAIN execs : execs[i].site = "for" /\ execs[i].batch = b}
InitExecs == {i \in DOMAIN execs : execs[i].site = "init"}

\* The for loop over the events of wake-up b is over.
BatchDone(b) == b < nbatch \/ (b = nbatch /\ pc \in {"drain", "drain_blocked", "read"})

\* ---------------------------------------------------------------- claims

\* C1: every wake-up of the triggering read that returns a batch of N >= 1
\* events starts exactly one command execution for the whole batch.
C1_OneRunPerBatch ==
    \A b \in 1..nbatch :
        /\ Cardinality(ExecsOfBatch(b)) <= 1
        /\ BatchDone(b) => Cardinality(ExecsOfBatch(b)) = 1

C3_InitialRunOnce ==
    /\ InitExecs \subseteq {1}
    /\ \A i \in InitExecs : execs[i].read = 0
    /\ execs # <<>> => handles = 1 /\ Constructed
    /\ (pc \in {"read", "drain", "drain_blocked"} \/ nbatch > 0 \/ drained # {} \/ delivered > Len(queue))
          => InitExecs = {1}

\* The initial run was made before the first batch of events was read, and
\* a run for that batch followed it.
C3_Witness ==
    /\ InitExecs = {1}
    /\ execs[1].read = 0
    /\ nbatch = 1
    /\ Len(execs) >= 2

\* The initial run has been made although every registration failed.
C3_WitnessNoWatch ==
    /\ watchList # <<>>
    /\ watches = {}
    /\ InitExecs = {1}
    /\ pc = "read"

\* C4: at most one command is in flight; a command is spawned only when the
\* previous one has terminated, and the thread never waits for events (in
\* the triggering read or in the drain) while a command is running.
C4_OneCommandInFlight ==
    /\ child \in {0, 1}
    /\ child = 1 => pc = "output"
    /\ pc \in {"run_command", "write", "read", "drain", "drain_blocked"} => child = 0

\* A command is running while events are queued for the loop.
C4_Witness ==
    /\ child = 1
    /\ queue # <<>>
    /\ site = "for"

\* C5: once the loop is Running no failure ends it: every step taken in
\* Running leaves the process in Running.
C5_RunningNeverEnds == [][Running => Running']_vars

\* The step in which run_command finds that sh could not be spawned.
SpawnFailed ==
    /\ Len(execs') = Len(execs) + 1
    /\ ~execs'[Len(execs')].spawned

\* What a step appends to the output.
Written == SubSeq(out', Len(out) + 1, Len(out'))

\* C6: when spawning the subshell fails, the failure is logged to standard
\* error, no captured output is written for that run, and the loop goes on
\* as after a successful run.
C6_SpawnFailureLogged ==
    [][SpawnFailed =>
          /\ \E i \in DOMAIN Written : Written[i].fd = "stderr"
          /\ \A i \in DOMAIN Written : Written[i].kind # "captured"
          /\ pc' = AfterCommand(site, events)]_vars

\* C7: Custom mode without a command ends the process in Runner::new, before
\* any command execution and before the loop is entered; Rust mode without a
\* command yields a Runner with the Rust default command and, no directories
\* being supplied either, the default watch list ["src"].
C7_CustomNeedsCommand ==
    /\ (pc # "main" /\ pc # "new" /\ mode = "Custom" /\ IsNone(conf.command))
          => /\ pc = "panicked"
             /\ panic \in StartingPanics
             /\ execs = <<>>
             /\ out = <<>>
    /\ (pc # "main" /\ mode = "Rust" /\ IsNone(conf.command))
          => /\ panic # "Command needs to be present for custom mode"
             /\ Constructed => command = RustCommand
             /\ (Constructed /\ IsNone(conf.directories)) => watchList = <<Src>>

\* Runner::new has panicked on Custom mode without a command.
C7_Witness ==
    /\ pc = "panicked"
    /\ panic = "Command needs to be present for custom mode"
    /\ mode = "Custom"
    /\ IsNone(conf.command)

\* Runner::new has built the Rust defaults and the loop is waiting for events.
C7_WitnessRust ==
    /\ pc = "read"
    /\ mode = "Rust"
    /\ args = [command |-> None, directories |-> None]
    /\ command = RustCommand
    /\ watchList = <<Src>>

\* The warnings written by the registration loop, in order.
WarnedDirs ==
    LET idx == {i \in DOMAIN out : out[i].kind = "Failed to watch"}
    IN  {out[i].text : i \in idx}
NumWarnings == Cardinality({i \in DOMAIN out : out[i].kind = "Failed to watch"})

\* C8: whatever the watch list and whichever registrations fail, every path
\* is either registered or reported on standard error (so a failure never
\* keeps a later path from being registered), only listed paths are
\* registered or reported, construction is not aborted and the loop starts
\* with its initial run.
C8_DegradeAndContinue ==
    Constructed =>
        /\ \A d \in Range(watchList) : d \in watches \/ d \in WarnedDirs
        /\ watches \subseteq Range(watchList)
        /\ WarnedDirs \subseteq Range(watchList)
        /\ NumWarnings <= Len(watchList)
        /\ Cardinality(watches) + NumWarnings >= Cardinality(Range(watchList))
        /\ \A i \in DOMAIN out : out[i].kind = "Failed to watch" => out[i].fd = "stderr"
        /\ panic \notin StartingPanics
        /\ pc \in {"read", "drain", "drain_blocked"} => InitExecs = {1}

\* The first of two paths failed to register, the second is watched, and the
\* loop has made its initial run and a run for an event of the watched path.
C8_Witness ==
    /\ Len(watchList) = 2
    /\ watches = {watchList[2]}
    /\ WarnedDirs = {watchList[1]}
    /\ watchList[1] # watchList[2]
    /\ InitExecs = {1}
    /\ nbatch >= 1

\* C9: the list of directories handed to watch registration is never empty
\* when the loop starts.
C9_WatchListNonEmpty == Constructed => watchList # <<>>

\* C10 as stated: a configured command makes the mode Custom and, with the
\* directories unset, the watch list exactly ["."].
C10_Original ==
    (pc # "main" /\ IsSome(conf.command))
        => /\ mode = "Custom"
           /\ (Constructed /\ IsNone(conf.directories)) => watchList = <<Dot>>

\* C10 amended: a configured command makes the mode Custom whatever the
\* current directory holds and, with the directories unset, the watch list
\* exactly ["src", "."].
C10_CommandMeansCustom ==
    (pc # "main" /\ IsSome(conf.command))
        => /\ mode = "Custom"
           /\ (Constructed /\ IsNone(conf.directories)) => watchList = <<Src, Dot>>

\* A command was configured in a directory holding Cargo.toml and Makefile,
\* no directories were, and the loop runs.
C10_Witness ==
    /\ IsSome(conf.command)
    /\ cwd = {"Cargo.toml", "Makefile"}
    /\ IsNone(conf.directories)
    /\ mode = "Custom"
    /\ watchList = <<Src, Dot>>
    /\ pc = "read"

\* The positions in the output of the terminal-clear sequences, and the
\* position of the k-th of them.
Clears == {i \in DOMAIN out : out[i].kind = "clear"}
IsClear(i) == out[i].kind = "clear"
ClearPositions == SelectSeq([i \in 1..Len(out) |-> i], IsClear)
ClearAt(k) == ClearPositions[k]

\* What was written after the k-th of the terminal-clear sequences at the
\* positions cl and before the next one.
Segment(cl, k) ==
    SubSeq(out, cl[k] + 1, IF k < Len(cl) THEN cl[k + 1] - 1 ELSE Len(out))

WrittenAfterClear(k) == Segment(ClearPositions, k)

\* The k-th invocation of run_command has returned to Runner::run.
Returned(k) ==
    k < Len(execs) \/ pc \in {"run_command", "read", "drain", "drain_blocked"}

\* C11: every command execution emits the terminal-clear sequence before the
\* command is spawned, writes nothing of the command's output while the
\* command runs, and after it has terminated writes the whole captured stdout
\* to standard output and then the whole captured stderr to standard error.
C11_OutputOrder ==
    LET cl == ClearPositions
    IN  /\ Len(cl) = Len(execs)
        /\ \A k \in DOMAIN execs :
              LET seg == Segment(cl, k)
              IN  /\ out[cl[k]].fd = "stdout"
                  /\ IF IsNone(execs[k].captured)
                     THEN seg = <<>>
                     ELSE LET cap == Unwrap(execs[k].captured)
                              whole == <<Stdout("captured", cap[1]),
                                         Stderr("captured", cap[2])>>
                          IN  /\ Len(seg) <= 2
                              /\ seg = SubSeq(whole, 1, Len(seg))
                              /\ Returned(k) => seg = whole
        /\ pc = "output" => out[Len(out)].kind = "clear"

\* A run made for an event has terminated with output on both streams, and
\* both captures have been written.
C11_Witness ==
    \E k \in DOMAIN execs :
        /\ execs[k].site = "for"
        /\ execs[k].captured = Some(<<"hi", "warning">>)
        /\ Returned(k)
        /\ WrittenAfterClear(k) = <<Stdout("captured", "hi"), Stderr("captured", "warning")>>

\* The positions in the output of the command line.
CommandLines == {i \in DOMAIN out : out[i].kind = "command"}

\* C12: the command line is emitted exactly once in the process lifetime, as
\* part of the first execution and after that execution's terminal-clear
\* sequence; no later execution emits it.
C12_CommandLineAfterClear ==
    /\ Cardinality(CommandLines) <= 1
    /\ (execs # <<>> /\ Returned(1)) => Cardinality(CommandLines) = 1
    /\ \A i \in CommandLines :
          /\ out[i].text = command
          /\ Clears # {}
          /\ ClearAt(1) < i
          /\ Cardinality(Clears) >= 2 => i < ClearAt(2)

\* C13: every delivered event is consumed by the loop exactly once, and it is
\* discarded without a command execution only if it was already queued when
\* a post-run drain ran; no other event is dropped.
C13_NoSilentDrop ==
    [][\A e \in 1..delivered' :
          /\ e \in drained' \ drained => (pc = "drain" /\ e \in Range(queue))
          /\ e \in drained' => ExecsOfEvent(e)' = {}
          /\ Cardinality(ExecsOfEvent(e))' <= 1
          /\ \/ e \in Range(queue')
             \/ e \in Range(events')
             \/ e \in drained'
             \/ ExecsOfEvent(e)' # {}]_vars

\* C14: the command handed to the subshell is a non-empty string whenever
\* the loop is Running; an absent or empty configured command in Custom mode
\* ends the process in Runner::new instead.
C14_CommandNonEmpty ==
    /\ Running => command # ""
    /\ (pc # "main" /\ pc # "new" /\ mode = "Custom"
          /\ args.command \in {None, Some("")})
          => pc = "panicked" /\ panic \in StartingPanics /\ execs = <<>>

\* An empty command was configured in a directory without project files, and
\* Runner::new has panicked.
C14_Witness ==
    /\ args.command = Some("")
    /\ cwd = {}
    /\ mode = "Custom"
    /\ pc = "panicked"
    /\ panic = "Command needs to be present for custom mode"
    /\ command = ""

\* An empty command was configured next to a Makefile, and the loop runs the
\* Make default.
C14_WitnessDefault ==
    /\ args.command = Some("")
    /\ pc = "output"
    /\ command = MakeCommand

\* The thread sleeps until an event arrives.
WaitingForEvents == (pc = "read" /\ queue = <<>>) \/ pc = "drain_blocked"

\* C15: the post-run drain never blocks (with nothing queued it returns at
\* once, so it never consumes a later event); the thread waits for events in
\* the triggering read only.
C15_DrainNeverBlocks ==
    /\ WaitingForEvents => pc = "read"
    /\ drained \subseteq {e \in 1..delivered : e \notin fresh}
    /\ pc # "drain_blocked"

\* C16: the exit status of a command is not interpreted.  What run_command
\* does once the command has terminated is fixed by the two captures and by
\* the position in the loop alone: for either exit status the same output is
\* written and the same loop state is reached, and the loop goes on (a write
\* that fails panics whatever the status).
C16_ExitStatusIgnored ==
    [][(pc = "write" /\ pc' # "write") =>
          \A status \in {0, 1} :
             LET o == [Unwrap(output) EXCEPT !.status = status]
                 forwarded == <<Stdout("captured", o.stdout), Stderr("captured", o.stderr)>>
             IN  \/ /\ out' = out \o forwarded
                    /\ pc' = AfterCommand(site, events)
                    /\ events' = RestOfBatch(site, events)
                    /\ Running'
                    /\ UNCHANGED <<runner, queue, site, child, panic, history>>
                 \/ /\ pc' = "panicked"
                    /\ panic' \in {"unwrap on Err: stdout write_all",
                                   "unwrap on Err: stderr write_all"}
                    /\ out' = out \o SubSeq(forwarded, 1, Len(out') - Len(out))]_vars

\* A second command has terminated with a non-zero exit status and output on
\* both streams, and its captures are about to be forwarded.
C16_Witness ==
    /\ pc = "write"
    /\ Len(execs) >= 2
    /\ Unwrap(output).status = 1
    /\ Unwrap(output).stdout = "hi"

\* A command has terminated with exit status zero and the same captures.
C16_WitnessZero ==
    /\ pc = "write"
    /\ Len(execs) >= 2
    /\ Unwrap(output).status = 0
    /\ Unwrap(output).stdout = "hi"

\* The step in which the post-run drain returns without any event: the read
\* of line 64 has failed (or has given nothing).
DrainReturnsNothing ==
    /\ pc \in {"drain", "drain_blocked"}
    /\ pc' \notin {"drain", "drain_blocked"}
    /\ drained' = drained

\* C17: a post-run drain that fails or returns no events is treated as "no
\* extra events": it starts no command execution, writes no diagnostic and
\* leaves the loop Running, at the next triggering read.
C17_FailedDrainIgnored ==
    [][DrainReturnsNothing =>
          /\ execs' = execs
          /\ out' = out
          /\ child' = child
          /\ panic' = panic
          /\ queue' = queue
          /\ pc' = "read"]_vars

\* The drain that followed the run for the first batch has returned without
\* an event, and the loop is back in the triggering read.
C17_Witness ==
    /\ pc = "read"
    /\ nbatch = 1
    /\ drained = {}
    /\ Cardinality(ExecsOfBatch(1)) >= 1

\* C18: once the loop has started, no step changes the command or the set of
\* registered watches, and exactly one inotify instance exists for the whole
\* life of the process.
C18_RunnerImmutable ==
    [][/\ Running => /\ command' = command
                     /\ watches' = watches
                     /\ handles' = handles
       /\ handles' <= 1
       /\ Running' => handles' = 1]_vars

\* The loop has read events, run the command for them and drained, with the
\* one inotify instance and its watches.
C18_Witness ==
    /\ pc = "read"
    /\ nbatch >= 1
    /\ drained # {}
    /\ handles = 1
    /\ watches = Range(watchList)
    /\ Len(watchList) = 2

\* C19: without a configured command the mode is Rust if the current
\* directory holds a Cargo.toml (even next to a Makefile), else Make if it
\* holds a Makefile, else Custom; Rust and Make are never chosen together
\* with a configured command, and a directory with neither file and no
\* command ends the process in Runner::new.
C19_ModePrecedence ==
    pc # "main" =>
        /\ IsNone(conf.command) =>
              /\ "Cargo.toml" \in cwd => mode = "Rust"
              /\ ("Cargo.toml" \notin cwd /\ "Makefile" \in cwd) => mode = "Make"
              /\ ("Cargo.toml" \notin cwd /\ "Makefile" \notin cwd) => mode = "Custom"
        /\ mode \in {"Rust", "Make"} => IsNone(conf.command)
        /\ (IsNone(conf.command) /\ cwd = {} /\ pc # "new")
              => pc = "panicked" /\ panic \in StartingPanics /\ execs = <<>>

\* No command was configured in a directory holding both files, the mode is
\* Rust and the loop runs the Rust default.
C19_Witness ==
    /\ IsNone(conf.command)
    /\ cwd = {"Cargo.toml", "Makefile"}
    /\ mode = "Rust"
    /\ command = RustCommand
    /\ pc = "read"

TypeOK ==
    /\ pc \in {"main", "new", "run", "run_command", "output", "write", "read", "drain",
             "drain_blocked", "panicked"}
    /\ child \in 0..1
    /\ delivered \in 0..MaxEvents
====
